---- MODULE Spec2Model ----
(***************************************************************************)
(* Model of package steg: steganographic encoding of messages in the red   *)
(* channel of the pixels of a PNG image.                                   *)
(*                                                                         *)
(* An Encoder holds one field, bit.  SetMsgBit, Encode and Decode are      *)
(* synchronous calls, so each is one action that models the whole call,    *)
(* the pixel scan included.  The files are modelled by their decoded       *)
(* contents: src is the carrier image, dst the image Encode writes.        *)
(* png.Decode yields an *image.RGBA (the only type Encode and Decode       *)
(* accept) whose rectangle starts at (0, 0) and whose pixels are opaque.   *)
(***************************************************************************)
EXTENDS Integers, Sequences, FiniteSets, TLC

\* ------------------------------------------------------------------ bounds

\* Width and height of the carrier image, in pixels.
Width == 12
Height == 3
\* Longest message, in bytes.
MaxMsgLen == 2

\* The results of the file operations of one call: all succeed, the image
\* cannot be opened and decoded, or the output cannot be created.
IOs == {"ok", "src fails", "dst fails"}
\* The colours a carrier image is filled with.
CarrierPixels == {<<0, 10, 20, 255>>, <<255, 128, 7, 255>>}
\* The arguments SetMsgBit is called with.
BitArgs == -1 .. 8

\* ------------------------------------------------------------------- types

Point(x, y) == [X |-> x, Y |-> y]

\* The zero value of Point, the value of a named result not yet assigned.
ZeroPoint == Point(0, 0)

\* image.Rectangle of the decoded carrier.
Bounds == [Min |-> Point(0, 0), Max |-> Point(Width, Height)]

Coords == (0 .. Width - 1) \X (0 .. Height - 1)

\* The points a caller passes: every pixel and a margin of one around them.
Points == {Point(x, y) : x \in -1 .. Width, y \in -1 .. Height}

\* The points the carrier is decoded between: the columns at and next to
\* the left and right edges, in every row.
EdgePoints == {p \in Points : p.X \in {-1, 0, 1, Width - 1, Width}}

\* The messages: the strings that alternate an ASCII byte and a byte above
\* 0x7f, of every length.
Msgs == {[k \in 1 .. len |-> IF (k + p) % 2 = 0 THEN 72 ELSE 200] :
            len \in 0 .. MaxMsgLen, p \in {0, 1}}

\* var tmp [8]bool
ZeroBits == [k \in 1 .. 8 |-> FALSE]

ErrNil == "nil"
ErrMsgBit == "msg bit out of bounds"
ErrZeroLength == "msg is zero length"
ErrStart == "start point out of bounds"
ErrEnd == "end point out of bounds"
ErrOrder == "start point does not precede end point"
ErrIO == "i/o error"
ErrIndex == "panic: index out of range"

VARIABLES
    bit,         \* Encoder.bit
    src,         \* the carrier image file, decoded: Coords -> <<R, G, B, A>>
    dst,         \* the image file Encode wrote; src's contents until then
    dstWritten,  \* whether Encode created dst
    img,         \* the pixel grid the last call held in memory
    stage,       \* "setup", "encoded", "failed" or "decoded"
    op,          \* the last call: "none", "SetMsgBit", "Encode", "Decode"
    n,           \* SetMsgBit's argument
    msg,         \* Encode's argument msg
    start,       \* the argument start of the last Encode or Decode
    end,         \* Encode's result end, then Decode's argument end
    err,         \* the error the last call returned
    out,         \* Decode's result msg
    opened,      \* whether the last call opened and decoded an image
    stop,        \* how the pixel scan of the last call ended
    file,        \* the file Decode read: "src" or "dst"
    b,           \* bit pack: the byte
    bits,        \* bit pack: the [8]bool
    packed,      \* bit pack: the byte rebuilt from bits
    pcBits       \* bit pack: "unpack", "pack" or "done"

codecVars == <<bit, src, dst, dstWritten, img, stage, op, n, msg, start, end,
               err, out, opened, stop, file>>
packVars == <<b, bits, packed, pcBits>>
vars == <<bit, src, dst, dstWritten, img, stage, op, n, msg, start, end,
          err, out, opened, stop, file, b, bits, packed, pcBits>>

\* ------------------------------------------------------------ pure helpers

pow(x, y) == x ^ y

\* uint8(v), byte(v)
uint8(v) == v % 256

\* v | p, v & p and v & ^p for p a power of two
HasBit(v, p) == (v \div p) % 2 = 1
OrBit(v, p) == IF HasBit(v, p) THEN v ELSE v + p
AndBit(v, p) == IF HasBit(v, p) THEN p ELSE 0
AndNotBit(v, p) == IF HasBit(v, p) THEN v - p ELSE v

\* color.RGBA.RGBA(): each 8-bit channel widened to 16 bits.
RGBA(px) == [c \in 1 .. 4 |-> px[c] * 257]

before(p1, p2) == ~(p1.Y >= p2.Y /\ p1.X > p2.X)

\* inBounds with r.Max taken as a point of the rectangle.
inBounds_inclusiveMax(r, p) ==
    IF p.X < r.Min.X THEN FALSE
    ELSE IF p.Y < r.Min.Y THEN FALSE
    ELSE IF p.X > r.Max.X THEN FALSE
    ELSE IF p.Y > r.Max.Y THEN FALSE
    ELSE TRUE

inBounds(r, p) ==
    IF p.X < r.Min.X THEN FALSE
    ELSE IF p.Y < r.Min.Y THEN FALSE
    ELSE IF p.X >= r.Max.X THEN FALSE
    ELSE IF p.Y >= r.Max.Y THEN FALSE
    ELSE TRUE

\* uint arithmetic; p is in bounds where this is called, so nothing wraps.
offsetFromMin(r, p) ==
    LET width == r.Max.X - r.Min.X
    IN  (p.Y * width) + p.X

pointAtOffset(r, p, offset) ==
    LET width == r.Max.X - r.Min.X
        rows == offset \div width
        y1 == p.Y + rows
        off1 == offset - rows * width
    IN  IF p.X + off1 > r.Max.X
        THEN Point(r.Min.X + (off1 - (r.Max.X - p.X)), y1 + 1)
        ELSE Point(p.X + off1, y1)

RECURSIVE bitsToByteFrom(_, _, _)
bitsToByteFrom(bs, i, acc) ==
    IF i > 7 THEN acc
    ELSE LET pos == pow(2, 7 - i)
         IN  bitsToByteFrom(bs, i + 1,
                            IF bs[i + 1] THEN uint8(acc + uint8(pos)) ELSE acc)

bitsToByte(bs) == bitsToByteFrom(bs, 0, 0)

\* The condition with > in place of >=.
ByteFits_strict(v, pos) == v - pos > 0

\* int(b)-pos >= 0
ByteFits(v, pos) == v - pos >= 0

RECURSIVE byteToBitsFrom(_, _, _)
byteToBitsFrom(bs, i, v) ==
    IF i > 7 THEN bs
    ELSE LET pos == pow(2, 7 - i)
         IN  IF ByteFits(v, pos)
             THEN byteToBitsFrom([bs EXCEPT ![i + 1] = TRUE], i + 1,
                                 uint8(v - uint8(pos)))
             ELSE byteToBitsFrom([bs EXCEPT ![i + 1] = FALSE], i + 1, v)

byteToBits(bs, v) == byteToBitsFrom(bs, 0, v)

\* string(n) for a byte n: the UTF-8 encoding of the code point n.
ByteToString(v) ==
    IF v < 128 THEN <<v>> ELSE <<192 + (v \div 64), 128 + (v % 64)>>

\* ---------------------------------------------------------- the pixel scans

\* The body of Encode's loop at a pixel that is written: the red channel
\* with bit k set or cleared, the other channels as img.At returned them.
SetPixel(px, on, k) ==
    LET c == RGBA(px)
        r == IF on THEN OrBit(c[1], pow(2, k))
             ELSE AndNotBit(uint8(c[1]), uint8(pow(2, k)))
    IN  <<uint8(r), uint8(c[2]), uint8(c[3]), uint8(c[4])>>

\* Encode's loops "outer".  st is the loop state [img, tmp, i, x, y]; the
\* result is the grid and how the scan ended: "break" at end, "exhausted"
\* after the last pixel, "panic" on msg[(i-offset)/8] out of range.  i and
\* offset are uint: a negative difference wraps to an index past any msg.
RECURSIVE EncodeScan(_, _, _, _, _, _, _)
EncodeScan(st, r, m, s, e, k, offset) ==
    IF st.y >= r.Max.Y THEN [img |-> st.img, stop |-> "exhausted"]
    ELSE IF st.x >= r.Max.X
    THEN EncodeScan([st EXCEPT !.x = r.Min.X, !.y = @ + 1], r, m, s, e, k, offset)
    ELSE IF st.x < s.X \/ st.y < s.Y
    THEN EncodeScan([st EXCEPT !.i = @ + 1, !.x = @ + 1], r, m, s, e, k, offset)
    ELSE IF st.x = e.X /\ st.y = e.Y THEN [img |-> st.img, stop |-> "break"]
    ELSE LET mod == st.i % 8
             idx == (st.i - offset) \div 8
         IN  IF mod = 0 /\ (st.i < offset \/ idx >= Len(m))
             THEN [img |-> st.img, stop |-> "panic"]
             ELSE LET tmp == IF mod = 0 THEN byteToBits(st.tmp, m[idx + 1])
                             ELSE st.tmp
                      px == SetPixel(st.img[<<st.x, st.y>>], tmp[mod + 1], k)
                  IN  EncodeScan([img |-> [st.img EXCEPT ![<<st.x, st.y>>] = px],
                                  tmp |-> tmp, i |-> st.i + 1,
                                  x |-> st.x + 1, y |-> st.y],
                                 r, m, s, e, k, offset)

\* Decode's loops "outer".  st is the loop state [msg, tmp, i, x, y].
RECURSIVE DecodeScan(_, _, _, _, _, _)
DecodeScan(st, g, r, s, e, k) ==
    IF st.y >= r.Max.Y THEN [msg |-> st.msg, stop |-> "exhausted"]
    ELSE IF st.x >= r.Max.X
    THEN DecodeScan([st EXCEPT !.x = r.Min.X, !.y = @ + 1], g, r, s, e, k)
    ELSE IF st.x < s.X \/ st.y < s.Y
    THEN DecodeScan([st EXCEPT !.i = @ + 1, !.x = @ + 1], g, r, s, e, k)
    ELSE IF st.x = e.X /\ st.y = e.Y THEN [msg |-> st.msg, stop |-> "break"]
    ELSE LET mod == st.i % 8
             red == RGBA(g[<<st.x, st.y>>])[1]
             tmp == [st.tmp EXCEPT ![mod + 1] =
                        ~(AndBit(uint8(red), uint8(pow(2, k))) = 0)]
             m2 == IF mod = 8 - 1
                   THEN st.msg \o ByteToString(bitsToByte(tmp))
                   ELSE st.msg
         IN  DecodeScan([msg |-> m2, tmp |-> tmp, i |-> st.i + 1,
                         x |-> st.x + 1, y |-> st.y], g, r, s, e, k)

\* ------------------------------------------------------------------- state

PackIdle == b = 0 /\ bits = ZeroBits /\ packed = 0 /\ pcBits = "done"

Init ==
    /\ bit = 0
    /\ src \in {[c \in Coords |-> px] : px \in CarrierPixels}
    /\ dst = src
    /\ dstWritten = FALSE
    /\ img = src
    /\ stage = "setup"
    /\ op = "none"
    /\ n = 0
    /\ msg = <<>>
    /\ start = ZeroPoint
    /\ end = ZeroPoint
    /\ err = ErrNil
    /\ out = <<>>
    /\ opened = FALSE
    /\ stop = "none"
    /\ file = "src"
    /\ PackIdle

\* ----------------------------------------------------------------- actions

\* The condition with the upper limit off by one.
BitInRange_upTo8(k) == ~(k < 0 \/ k > 8)

\* n < 0 || n > 7
BitInRange(k) == ~(k < 0 \/ k > 7)

\* func (e *Encoder) SetMsgBit(n int) error
SetMsgBit(k) ==
    /\ op' = "SetMsgBit"
    /\ n' = k
    /\ IF ~BitInRange(k)
       THEN err' = ErrMsgBit /\ bit' = bit
       ELSE err' = ErrNil /\ bit' = k
    /\ UNCHANGED <<src, dst, dstWritten, img, stage, msg, start, end, out,
                   opened, stop, file>>
    /\ UNCHANGED packVars

\* Encode without the zero-length check.
ZeroLength_unchecked(m) == FALSE

\* len(msg) == 0
ZeroLength(m) == Len(m) = 0

\* The result of Encode(src, dst, m, s): srcOk says that src opens and
\* decodes to an *image.RGBA, dstOk that dst can be created and written.
EncodeResult(m, s, srcOk, dstOk) ==
    LET none == [end |-> ZeroPoint, err |-> ErrNil, opened |-> FALSE,
                 img |-> src, stop |-> "none", written |-> FALSE]
    IN  IF ZeroLength(m) THEN [none EXCEPT !.err = ErrZeroLength]
        ELSE IF ~srcOk THEN [none EXCEPT !.err = ErrIO]
        ELSE
        LET bounds == Bounds
            e == pointAtOffset(bounds, s, Len(m) * 8)
            got == [none EXCEPT !.end = e, !.opened = TRUE]
        IN  IF ~inBounds(bounds, s) THEN [got EXCEPT !.err = ErrStart]
            ELSE IF ~inBounds(bounds, e) THEN [got EXCEPT !.err = ErrEnd]
            ELSE
            LET offset == offsetFromMin(bounds, s)
                scan == EncodeScan([img |-> src, tmp |-> ZeroBits, i |-> 0,
                                    x |-> bounds.Min.X, y |-> bounds.Min.Y],
                                   bounds, m, s, e, bit, offset)
                ran == [got EXCEPT !.img = scan.img, !.stop = scan.stop]
            IN  IF scan.stop = "panic" THEN [ran EXCEPT !.err = ErrIndex]
                ELSE IF ~dstOk THEN [ran EXCEPT !.err = ErrIO]
                ELSE [ran EXCEPT !.written = TRUE]

\* func (e *Encoder) Encode(src, dst, msg string, start Point) (end Point, err error)
Encode(m, s, io) ==
    /\ \E res \in {EncodeResult(m, s, io # "src fails", io # "dst fails")} :
           /\ op' = "Encode"
           /\ msg' = m
           /\ start' = s
           /\ end' = res.end
           /\ err' = res.err
           /\ opened' = res.opened
           /\ img' = res.img
           /\ stop' = res.stop
           /\ dstWritten' = res.written
           /\ dst' = IF res.written THEN res.img ELSE dst
           /\ stage' = IF res.err = ErrNil THEN "encoded" ELSE "failed"
    /\ UNCHANGED <<bit, src, n, out, file>>
    /\ UNCHANGED packVars

\* The result of Decode(f, s, e) on the image g.
DecodeResult(g, s, e, srcOk) ==
    LET none == [msg |-> <<>>, err |-> ErrNil, opened |-> FALSE, stop |-> "none"]
    IN  IF ~before(s, e) THEN [none EXCEPT !.err = ErrOrder]
        ELSE IF ~srcOk THEN [none EXCEPT !.err = ErrIO]
        ELSE
        LET bounds == Bounds
            got == [none EXCEPT !.opened = TRUE]
        IN  IF ~inBounds(bounds, s) THEN [got EXCEPT !.err = ErrStart]
            ELSE IF ~inBounds(bounds, e) THEN [got EXCEPT !.err = ErrEnd]
            ELSE
            LET scan == DecodeScan([msg |-> <<>>, tmp |-> ZeroBits, i |-> 0,
                                    x |-> bounds.Min.X, y |-> bounds.Min.Y],
                                   g, bounds, s, e, bit)
            IN  [got EXCEPT !.msg = scan.msg, !.stop = scan.stop]

\* func (e *Encoder) Decode(src string, start, end Point) (msg string, err error)
Decode(f, s, e, io) ==
    /\ \E g \in {IF f = "src" THEN src ELSE dst} :
       \E res \in {DecodeResult(g, s, e, io # "src fails")} :
           /\ op' = "Decode"
           /\ file' = f
           /\ start' = s
           /\ end' = e
           /\ out' = res.msg
           /\ err' = res.err
           /\ opened' = res.opened
           /\ stop' = res.stop
           /\ img' = g
    /\ stage' = "decoded"
    /\ UNCHANGED <<bit, src, dst, dstWritten, n, msg>>
    /\ UNCHANGED packVars

\* The caller: it configures the Encoder, then either decodes the carrier
\* between two EdgePoints, or encodes a message and decodes the image Encode
\* wrote between the start it gave and the end Encode returned.
Configure == stage = "setup" /\ \E k \in BitArgs : SetMsgBit(k)

Hide == stage = "setup" /\ \E m \in Msgs, s \in Points, io \in IOs : Encode(m, s, io)

Probe ==
    /\ stage = "setup"
    /\ \E s \in EdgePoints, e \in EdgePoints, io \in IOs \ {"dst fails"} :
          Decode("src", s, e, io)

Recover ==
    /\ stage = "encoded"
    /\ \E io \in IOs \ {"dst fails"} : Decode("dst", start, end, io)

Next == Configure \/ Hide \/ Probe \/ Recover

Spec == Init /\ [][Next]_vars

\* ------------------------------------------------- bit pack, on its own

\* byteToBits(&tmp, b) followed by bitsToByte(tmp), for every byte b.
PackInit ==
    /\ bit = 0
    /\ src = [c \in Coords |-> <<0, 10, 20, 255>>]
    /\ dst = src
    /\ dstWritten = FALSE
    /\ img = src
    /\ stage = "setup"
    /\ op = "none"
    /\ n = 0
    /\ msg = <<>>
    /\ start = ZeroPoint
    /\ end = ZeroPoint
    /\ err = ErrNil
    /\ out = <<>>
    /\ opened = FALSE
    /\ stop = "none"
    /\ file = "src"
    /\ b \in 0 .. 255
    /\ bits = ZeroBits
    /\ packed = 0
    /\ pcBits = "unpack"

Unpack ==
    /\ pcBits = "unpack"
    /\ bits' = byteToBits(bits, b)
    /\ pcBits' = "pack"
    /\ UNCHANGED <<b, packed>>
    /\ UNCHANGED codecVars

Pack ==
    /\ pcBits = "pack"
    /\ packed' = bitsToByte(bits)
    /\ pcBits' = "done"
    /\ UNCHANGED <<b, bits>>
    /\ UNCHANGED codecVars

PackNext == Unpack \/ Pack

PackSpec == PackInit /\ [][PackNext]_vars

\* ------------------------------------------------------------------ claims

\* Row-major geometry of the image, stated without the package's helpers.
InRect(p) == p.X \in 0 .. Width - 1 /\ p.Y \in 0 .. Height - 1
Linear(p) == p.Y * Width + p.X
StrictlyAfter(e, s) == e.Y > s.Y \/ (e.Y = s.Y /\ e.X > s.X)
BitOf(v, k) == (v \div (2 ^ k)) % 2 = 1

\* C1: round trip.  Whenever Decode has read the image Encode wrote, between
\* the start given to Encode and the end Encode returned, with the same bit
\* position and no file error, it returns no error and exactly msg.
C1_RoundTrip ==
    (op = "Decode" /\ file = "dst" /\ err # ErrIO)
        => (err = ErrNil /\ out = msg)

\* C2: non-destructive encoding.  After every successful Encode the second,
\* third and fourth channel of every pixel are those of the carrier, and
\* every pixel whose row-major position is before start or at or after end
\* is the carrier's pixel, in memory and in the image written.
C2_NonDestructive ==
    (op = "Encode" /\ err = ErrNil) =>
        /\ dstWritten /\ dst = img
        /\ \A c \in Coords :
              /\ \A ch \in 2 .. 4 : img[c][ch] = src[c][ch]
              /\ (  Linear(Point(c[1], c[2])) < Linear(start)
                 \/ Linear(Point(c[1], c[2])) >= Linear(end)) => img[c] = src[c]

\* C3: end coordinate.  For every in-bounds start and non-empty msg, the end
\* Encode computes is the pixel right after the last message pixel: its
\* linear offset is start's plus len(msg)*8 and its column is a column of
\* the image.
C3_EndCoordinate ==
    (op = "Encode" /\ opened /\ InRect(start)) =>
        /\ Linear(end) = Linear(start) + Len(msg) * 8
        /\ end.X \in 0 .. Width - 1

\* C4: bounds rejection.  Whenever Encode has decoded the image and start,
\* or the end it computed, lies outside the image rectangle, it returns the
\* out-of-bounds error for that point, the pixel grid is the carrier's and
\* no output image was written.
C4_BoundsRejection ==
    (op = "Encode" /\ opened /\ (~InRect(start) \/ ~InRect(end))) =>
        /\ err = IF ~InRect(start) THEN ErrStart ELSE ErrEnd
        /\ img = src
        /\ stop = "none"
        /\ ~dstWritten /\ dst = src

\* C4 witness: Encode rejected a message whose start is a pixel of the image
\* and whose end is not.
C4_Witness ==
    /\ op = "Encode" /\ opened /\ err = ErrEnd
    /\ InRect(start) /\ ~InRect(end) /\ Len(msg) > 0

\* C5: ordering rejection.  Decode returns the "start does not precede end"
\* error for every pair in which end is not strictly after start in
\* row-major order, without scanning the image.
C5_OrderingRejection ==
    (op = "Decode" /\ ~StrictlyAfter(end, start)) =>
        (err = ErrOrder /\ stop = "none")

C7_BitPosition ==
    /\ bit = 0
    /\ [][/\ bit' \in 0 .. 7
          /\ op' = "SetMsgBit" =>
                IF n' \in 0 .. 7 THEN err' = ErrNil /\ bit' = n'
                ELSE err' = ErrMsgBit /\ bit' = bit
          /\ op' # "SetMsgBit" => bit' = bit]_vars

\* C7 witness: SetMsgBit returned an error for an n above 7 after an earlier
\* call had stored a bit position other than the default.
C7_Witness == op = "SetMsgBit" /\ n > 7 /\ err = ErrMsgBit /\ bit = 7

\* C8: bit pack inverse law.  For every byte b, byteToBits yields the 8 bits
\* of b most significant first (index i holds bit 7-i) and bitsToByte of
\* them is b.
C8_PackInverse ==
    /\ pcBits \in {"pack", "done"} =>
          \A i \in 0 .. 7 : bits[i + 1] = BitOf(b, 7 - i)
    /\ pcBits = "done" => packed = b

\* C8 witness: a byte with its top bit and lower bits set went through
\* byteToBits and bitsToByte.
C8_Witness == pcBits = "done" /\ b = 200 /\ packed = 200 /\ bits[1] /\ ~bits[8]

\* C9: full capacity.  Encode returns no out-of-bounds error whenever start
\* is a pixel of the image and at least len(msg)*8 pixels lie from start
\* through the last pixel of the image in row-major order.
C9_FullCapacity ==
    (  op = "Encode" /\ opened /\ InRect(start)
    /\ Linear(start) + Len(msg) * 8 <= Width * Height)
        => err \notin {ErrStart, ErrEnd}

\* C10: the scan stays inside the message.  Whenever both bounds checks of
\* Encode pass, the scan stops at end and no message byte index it computes
\* is out of range.
C10_ScanInsideMsg ==
    (op = "Encode" /\ opened /\ err \notin {ErrStart, ErrEnd})
        => (stop = "break" /\ err # ErrIndex)

====
